---- MODULE Spec2Model ----
(***************************************************************************)
(* trello-to-sankey: the stage normalizer, the history cleaner and the     *)
(* report generation of TrelloSankeyGenerator (trello_sankey/generator.py), *)
(* the FlowGraph of trello_sankey/graph.py and the report text of          *)
(* SankeyData (trello_sankey/models.py).                                   *)
(*                                                                         *)
(* Stage names are TLA+ strings; Chars gives the characters of each string *)
(* the model uses, so that the normalizer's lower-casing and substring     *)
(* tests are computed on characters, as str.lower() and `in` do.           *)
(* Python's 0-based indices are kept: PIPELINE_STAGES[i] of the source is  *)
(* PIPELINE_STAGES[i + 1] here.                                            *)
(***************************************************************************)
EXTENDS Integers, Sequences, FiniteSets, TLC

VARIABLES
    card_id,             \* the key of the card_movements item being cleaned
    full_history,        \* its value: the raw list names, oldest first
    pos,                 \* 0-based position of the inner loop in full_history
    clean_history,       \* the local clean_history
    max_pipeline_index,  \* the local max_pipeline_index
    cpc,                 \* where the cleaner is: "loop", "break", "done", "idle"
    clean_histories,     \* the list _clean_backward_movements returns
    nodes,               \* FlowGraph.nodes: StageNodes in insertion order
    total_cards,         \* FlowGraph.total_cards
    card_histories,      \* the arguments of the add_card_journey calls so far
    waiting_passes,      \* number of calculate_waiting_flows calls so far
    gpc,                 \* where the graph is: "build", "resolved", "reported",
                         \* "formatted", "idle"
    flows,               \* SankeyData.flows: the FlowData list of get_flows
    output,              \* the lines of SankeyData.to_sankeymatic_string
    lists,               \* the board: what get_board_lists returns
    cards,               \* the board: what get_board_cards returns
    actions,             \* the board: what get_board_actions returns
    card_movements,      \* the local card_movements, in insertion order
    pc,                  \* where generate_sankeymatic_data is
    trace,               \* what the current call has done so far, in order
    results              \* the outcome of every finished call, in order

vars == <<card_id, full_history, pos, clean_history, max_pipeline_index, cpc,
          clean_histories, nodes, total_cards, card_histories, waiting_passes, gpc,
          flows, output, lists, cards, actions, card_movements, pc, trace,
          results>>

cleanVars == <<card_id, full_history, pos, clean_history, max_pipeline_index, cpc,
               clean_histories>>

graphVars == <<nodes, total_cards, card_histories, waiting_passes, gpc, flows, output>>

genVars == <<lists, cards, actions, card_movements, pc, trace, results>>

-----------------------------------------------------------------------------
(* Bounds *)

\* longest raw history of a card
MaxLen == 3

\* most add_card_journey calls on one graph
MaxCards == 2

\* most calculate_waiting_flows calls on one graph
MaxPasses == 2

\* longest action log of the board
MaxActions == 2

\* most calls of generate_sankeymatic_data on one generator
MaxCalls == 2

-----------------------------------------------------------------------------
(* Strings *)

\* the characters of every string of the model
Chars(s) ==
    CASE s = "Applications" -> <<"A", "p", "p", "l", "i", "c", "a", "t", "i", "o", "n", "s">>
      [] s = "Screening" -> <<"S", "c", "r", "e", "e", "n", "i", "n", "g">>
      [] s = "Technical assessment" -> <<"T", "e", "c", "h", "n", "i", "c", "a", "l", " ", "a", "s", "s", "e", "s", "s", "m", "e", "n", "t">>
      [] s = "Final rounds" -> <<"F", "i", "n", "a", "l", " ", "r", "o", "u", "n", "d", "s">>
      [] s = "Offers" -> <<"O", "f", "f", "e", "r", "s">>
      [] s = "Accepted" -> <<"A", "c", "c", "e", "p", "t", "e", "d">>
      [] s = "Rejected" -> <<"R", "e", "j", "e", "c", "t", "e", "d">>
      [] s = "Rejected by me" -> <<"R", "e", "j", "e", "c", "t", "e", "d", " ", "b", "y", " ", "m", "e">>
      [] s = "Discriminated" -> <<"D", "i", "s", "c", "r", "i", "m", "i", "n", "a", "t", "e", "d">>
      [] s = "Waiting" -> <<"W", "a", "i", "t", "i", "n", "g">>
      [] s = "Unknown" -> <<"U", "n", "k", "n", "o", "w", "n">>
      [] s = "apply" -> <<"a", "p", "p", "l", "y">>
      [] s = "application" -> <<"a", "p", "p", "l", "i", "c", "a", "t", "i", "o", "n">>
      [] s = "sent" -> <<"s", "e", "n", "t">>
      [] s = "screen" -> <<"s", "c", "r", "e", "e", "n">>
      [] s = "contact" -> <<"c", "o", "n", "t", "a", "c", "t">>
      [] s = "technical" -> <<"t", "e", "c", "h", "n", "i", "c", "a", "l">>
      [] s = "assessment" -> <<"a", "s", "s", "e", "s", "s", "m", "e", "n", "t">>
      [] s = "final" -> <<"f", "i", "n", "a", "l">>
      [] s = "rounds" -> <<"r", "o", "u", "n", "d", "s">>
      [] s = "offer" -> <<"o", "f", "f", "e", "r">>
      [] s = "negotiation" -> <<"n", "e", "g", "o", "t", "i", "a", "t", "i", "o", "n">>
      [] s = "accept" -> <<"a", "c", "c", "e", "p", "t">>
      [] s = "reject" -> <<"r", "e", "j", "e", "c", "t">>
      [] s = "rejected by me" -> <<"r", "e", "j", "e", "c", "t", "e", "d", " ", "b", "y", " ", "m", "e">>
      [] s = "reject by me" -> <<"r", "e", "j", "e", "c", "t", " ", "b", "y", " ", "m", "e">>
      [] s = "" -> <<>>
      [] s = "To Apply" -> <<"T", "o", " ", "A", "p", "p", "l", "y">>
      [] s = "Phone Screen" -> <<"P", "h", "o", "n", "e", " ", "S", "c", "r", "e", "e", "n">>
      [] s = "Technical Interview" -> <<"T", "e", "c", "h", "n", "i", "c", "a", "l", " ", "I", "n", "t", "e", "r", "v", "i", "e", "w">>
      [] s = "Final Rounds" -> <<"F", "i", "n", "a", "l", " ", "R", "o", "u", "n", "d", "s">>
      [] s = "Offer" -> <<"O", "f", "f", "e", "r">>
      [] s = "Accept" -> <<"A", "c", "c", "e", "p", "t">>
      [] s = "Rejection" -> <<"R", "e", "j", "e", "c", "t", "i", "o", "n">>
      [] s = "Reject by me" -> <<"R", "e", "j", "e", "c", "t", " ", "b", "y", " ", "m", "e">>
      [] s = "Unknown Stage" -> <<"U", "n", "k", "n", "o", "w", "n", " ", "S", "t", "a", "g", "e">>
      [] s = "Random Stage" -> <<"R", "a", "n", "d", "o", "m", " ", "S", "t", "a", "g", "e">>
      [] s = "Offer Rejected By Me" -> <<"O", "f", "f", "e", "r", " ", "R", "e", "j", "e", "c", "t", "e", "d", " ", "B", "y", " ", "M", "e">>
      [] s = "Screening Application" -> <<"S", "c", "r", "e", "e", "n", "i", "n", "g", " ", "A", "p", "p", "l", "i", "c", "a", "t", "i", "o", "n">>
      [] s = "Accepted Offer" -> <<"A", "c", "c", "e", "p", "t", "e", "d", " ", "O", "f", "f", "e", "r">>
      [] s = "FINAL ASSESSMENT" -> <<"F", "I", "N", "A", "L", " ", "A", "S", "S", "E", "S", "S", "M", "E", "N", "T">>
      [] s = "unknown" -> <<"u", "n", "k", "n", "o", "w", "n">>

\* str.lower() on one character
lower(c) ==
    CASE c = "A" -> "a"
      [] c = "B" -> "b"
      [] c = "C" -> "c"
      [] c = "D" -> "d"
      [] c = "E" -> "e"
      [] c = "F" -> "f"
      [] c = "G" -> "g"
      [] c = "H" -> "h"
      [] c = "I" -> "i"
      [] c = "J" -> "j"
      [] c = "K" -> "k"
      [] c = "L" -> "l"
      [] c = "M" -> "m"
      [] c = "N" -> "n"
      [] c = "O" -> "o"
      [] c = "P" -> "p"
      [] c = "Q" -> "q"
      [] c = "R" -> "r"
      [] c = "S" -> "s"
      [] c = "T" -> "t"
      [] c = "U" -> "u"
      [] c = "V" -> "v"
      [] c = "W" -> "w"
      [] c = "X" -> "x"
      [] c = "Y" -> "y"
      [] c = "Z" -> "z"
      [] OTHER -> c

\* str.lower()
Lower(cs) == [i \in 1..Len(cs) |-> lower(cs[i])]

\* Python's `sub in s` on character sequences
Contains(cs, sub) ==
    \E i \in 0..(Len(cs) - Len(sub)) : SubSeq(cs, i + 1, i + Len(sub)) = sub

\* Python's `x in list`
InList(x, list) == \E i \in DOMAIN list : list[i] = x

\* Python's list.index(x), 0-based
ListIndex(list, x) == (CHOOSE i \in DOMAIN list : list[i] = x) - 1

-----------------------------------------------------------------------------
(* TrelloSankeyGenerator: constants and _normalize_stage_name *)

PIPELINE_STAGES ==
    <<"Applications", "Screening", "Technical assessment", "Final rounds", "Offers">>

FINAL_STATES == <<"Accepted", "Rejected", "Rejected by me", "Discriminated">>

stage_mappings ==
    << [keywords |-> <<"apply", "application", "sent">>, name |-> "Applications"],
       [keywords |-> <<"screen", "contact">>,            name |-> "Screening"],
       [keywords |-> <<"technical", "assessment">>,      name |-> "Technical assessment"],
       [keywords |-> <<"final", "rounds">>,              name |-> "Final rounds"],
       [keywords |-> <<"offer", "negotiation">>,         name |-> "Offers"],
       [keywords |-> <<"accept">>,                       name |-> "Accepted"],
       [keywords |-> <<"reject">>,                       name |-> "Rejected"] >>

\* any(keyword in stage_lower for keyword in keywords)
AnyKeyword(stage_lower, keywords) ==
    \E k \in DOMAIN keywords : Contains(stage_lower, Chars(keywords[k]))

\* variant: the rule list is tried before the "rejected by me" test
_normalize_stage_name_RulesFirst(stage_name) ==
    IF stage_name = "" \/ stage_name = "Unknown" THEN "Unknown"
    ELSE LET stage_lower == Lower(Chars(stage_name))
             hits == {m \in DOMAIN stage_mappings :
                         AnyKeyword(stage_lower, stage_mappings[m].keywords)}
             first == CHOOSE m \in hits : \A n \in hits : m <= n
         IN  IF hits # {} THEN stage_mappings[first].name
             ELSE IF Contains(stage_lower, Chars("rejected by me"))
                     \/ Contains(stage_lower, Chars("reject by me"))
             THEN "Rejected by me"
             ELSE stage_name

\* variant: a label no rule matches becomes "Unknown"
_normalize_stage_name_NoPassThrough(stage_name) ==
    IF stage_name = "" \/ stage_name = "Unknown" THEN "Unknown"
    ELSE LET stage_lower == Lower(Chars(stage_name))
             hits == {m \in DOMAIN stage_mappings :
                         AnyKeyword(stage_lower, stage_mappings[m].keywords)}
             first == CHOOSE m \in hits : \A n \in hits : m <= n
         IN  IF Contains(stage_lower, Chars("rejected by me"))
                \/ Contains(stage_lower, Chars("reject by me"))
             THEN "Rejected by me"
             ELSE IF hits # {} THEN stage_mappings[first].name
             ELSE "Unknown"

_normalize_stage_name(stage_name) ==
    IF stage_name = "" \/ stage_name = "Unknown" THEN "Unknown"
    ELSE LET stage_lower == Lower(Chars(stage_name))
             hits == {m \in DOMAIN stage_mappings :
                         AnyKeyword(stage_lower, stage_mappings[m].keywords)}
             first == CHOOSE m \in hits : \A n \in hits : m <= n
         IN  IF Contains(stage_lower, Chars("rejected by me"))
                \/ Contains(stage_lower, Chars("reject by me"))
             THEN "Rejected by me"
             ELSE IF hits # {} THEN stage_mappings[first].name
             ELSE stage_name

\* the raw list names a board can use
RawLabels ==
    { "To Apply", "Phone Screen", "Technical Interview", "Final Rounds", "Offer",
      "Accept", "Rejection", "Reject by me", "Discriminated",
      "", "Unknown", "Unknown Stage", "Random Stage" }

\* list names that hold keywords of several rules, upper-case letters, or a
\* lower-case "unknown"
MixedLabels ==
    { "Offer Rejected By Me", "Screening Application", "Accepted Offer",
      "FINAL ASSESSMENT", "unknown" }

\* self._normalize_stage_name(stage) for every list name, computed once
NormalizedName == [s \in RawLabels \cup MixedLabels |-> _normalize_stage_name(s)]

-----------------------------------------------------------------------------
(* TrelloSankeyGenerator._clean_backward_movements: one item of card_movements *)

RECURSIVE SeqsUpTo(_, _)
SeqsUpTo(S, n) ==
    IF n = 0 THEN {<<>>}
    ELSE LET shorter == SeqsUpTo(S, n - 1)
         IN  shorter \cup {Append(q, x) : q \in {r \in shorter : Len(r) = n - 1}, x \in S}

RawHistories == SeqsUpTo(RawLabels, MaxLen) \cup {<<s>> : s \in MixedLabels}

\* the stage the inner loop is at
Stage == full_history[pos + 1]

\* normalized_stage = self._normalize_stage_name(stage)
normalized_stage == NormalizedName[Stage]

InLoop == cpc = "loop" /\ pos < Len(full_history)

\* variant: no movement counts as backward
IsBackward_Never(current_index, max_index) == FALSE

\* if current_index < max_pipeline_index
IsBackward(current_index, max_index) == current_index < max_index

\* variant: the gap test without its max_pipeline_index != -1 conjunct
HasGap_FromStart(current_index, max_index) == current_index > max_index + 1

\* if max_pipeline_index != -1 and current_index > max_pipeline_index + 1
HasGap(current_index, max_index) ==
    max_index # -1 /\ current_index > max_index + 1

\* variant: range(max_pipeline_index + 2, current_index)
MissingStages_SkipOne(current_index, max_index) ==
    [k \in 1..(current_index - max_index - 2) |-> PIPELINE_STAGES[max_index + k + 2]]

\* for missing_idx in range(max_pipeline_index + 1, current_index): append
MissingStages(current_index, max_index) ==
    [k \in 1..(current_index - max_index - 1) |-> PIPELINE_STAGES[max_index + k + 1]]

\* if not clean_history or clean_history[-1] != normalized_stage: append
AppendIfNew(history, name) ==
    IF history = <<>> \/ history[Len(history)] # name
    THEN Append(history, name)
    ELSE history

\* lines 156-166: what a pipeline stage that is no backward movement appends
Advance(history, name, max_index) ==
    LET current_index == ListIndex(PIPELINE_STAGES, name)
        filled == IF HasGap(current_index, max_index)
                  THEN history \o MissingStages(current_index, max_index)
                  ELSE history
    IN  AppendIfNew(filled, name)

\* variant: an empty history is left empty
EnsureNonEmpty_Never(history) == history

\* if not clean_history: clean_history = ["Applications"]
EnsureNonEmpty(history) == IF history = <<>> THEN <<"Applications">> ELSE history

CleanInit ==
    /\ card_id = "card1"
    /\ full_history \in RawHistories
    /\ pos = 0
    /\ clean_history = <<>>
    /\ max_pipeline_index = -1
    /\ cpc = "loop"
    /\ clean_histories = <<>>
    /\ nodes = <<>>
    /\ total_cards = 0
    /\ card_histories = <<>>
    /\ waiting_passes = 0
    /\ gpc = "idle"
    /\ flows = <<>>
    /\ output = <<>>
    /\ lists = <<>>
    /\ cards = <<>>
    /\ actions = <<>>
    /\ card_movements = <<>>
    /\ pc = "idle"
    /\ trace = <<>>
    /\ results = <<>>

\* variant: a final state is appended and the loop goes on
StageFinal_NoBreak ==
    /\ UNCHANGED <<graphVars, genVars>>
    /\ InLoop
    /\ InList(normalized_stage, FINAL_STATES)
    /\ clean_history' = Append(clean_history, normalized_stage)
    /\ pos' = pos + 1
    /\ UNCHANGED <<card_id, full_history, max_pipeline_index, cpc, clean_histories>>

\* a final state: append it and break
StageFinal ==
    /\ UNCHANGED <<graphVars, genVars>>
    /\ InLoop
    /\ InList(normalized_stage, FINAL_STATES)
    /\ clean_history' = Append(clean_history, normalized_stage)
    /\ cpc' = "break"
    /\ UNCHANGED <<card_id, full_history, pos, max_pipeline_index, clean_histories>>

\* variant: the progress is recorded before the backward test
StageBackward_Records ==
    /\ UNCHANGED <<graphVars, genVars>>
    /\ InLoop
    /\ ~InList(normalized_stage, FINAL_STATES)
    /\ InList(normalized_stage, PIPELINE_STAGES)
    /\ IsBackward(ListIndex(PIPELINE_STAGES, normalized_stage),
                  max_pipeline_index)
    /\ max_pipeline_index' = ListIndex(PIPELINE_STAGES, normalized_stage)
    /\ pos' = pos + 1
    /\ UNCHANGED <<card_id, full_history, clean_history, cpc, clean_histories>>

\* a pipeline stage behind the furthest one seen: continue
StageBackward ==
    /\ UNCHANGED <<graphVars, genVars>>
    /\ InLoop
    /\ ~InList(normalized_stage, FINAL_STATES)
    /\ InList(normalized_stage, PIPELINE_STAGES)
    /\ IsBackward(ListIndex(PIPELINE_STAGES, normalized_stage),
                  max_pipeline_index)
    /\ pos' = pos + 1
    /\ UNCHANGED <<card_id, full_history, clean_history, max_pipeline_index, cpc,
                   clean_histories>>

\* any other pipeline stage: fill the gap, record the progress, append
StageForward ==
    /\ UNCHANGED <<graphVars, genVars>>
    /\ InLoop
    /\ ~InList(normalized_stage, FINAL_STATES)
    /\ InList(normalized_stage, PIPELINE_STAGES)
    /\ ~IsBackward(ListIndex(PIPELINE_STAGES, normalized_stage),
                   max_pipeline_index)
    /\ clean_history' = Advance(clean_history, normalized_stage,
                                max_pipeline_index)
    /\ max_pipeline_index' = ListIndex(PIPELINE_STAGES, normalized_stage)
    /\ pos' = pos + 1
    /\ UNCHANGED <<card_id, full_history, cpc, clean_histories>>

\* elif "Unknown" in normalized_stage: continue
StageUnknown ==
    /\ UNCHANGED <<graphVars, genVars>>
    /\ InLoop
    /\ ~InList(normalized_stage, FINAL_STATES)
    /\ ~InList(normalized_stage, PIPELINE_STAGES)
    /\ Contains(Chars(normalized_stage), Chars("Unknown"))
    /\ pos' = pos + 1
    /\ UNCHANGED <<card_id, full_history, clean_history, max_pipeline_index, cpc,
                   clean_histories>>

\* variant: a name no branch takes is kept in the history
StageOther_Keep ==
    /\ UNCHANGED <<graphVars, genVars>>
    /\ InLoop
    /\ ~InList(normalized_stage, FINAL_STATES)
    /\ ~InList(normalized_stage, PIPELINE_STAGES)
    /\ ~Contains(Chars(normalized_stage), Chars("Unknown"))
    /\ clean_history' = Append(clean_history, normalized_stage)
    /\ pos' = pos + 1
    /\ UNCHANGED <<card_id, full_history, max_pipeline_index, cpc, clean_histories>>

\* no branch of the loop body takes the stage: the body ends without effect
StageOther ==
    /\ UNCHANGED <<graphVars, genVars>>
    /\ InLoop
    /\ ~InList(normalized_stage, FINAL_STATES)
    /\ ~InList(normalized_stage, PIPELINE_STAGES)
    /\ ~Contains(Chars(normalized_stage), Chars("Unknown"))
    /\ pos' = pos + 1
    /\ UNCHANGED <<card_id, full_history, clean_history, max_pipeline_index, cpc,
                   clean_histories>>

\* after the loop: default an empty history, append the CardHistory
FinishCard ==
    /\ UNCHANGED <<graphVars, genVars>>
    /\ cpc = "break" \/ (cpc = "loop" /\ pos >= Len(full_history))
    /\ clean_history' = EnsureNonEmpty(clean_history)
    /\ clean_histories' =
           Append(clean_histories,
                  [card_id |-> card_id, stages |-> EnsureNonEmpty(clean_history)])
    /\ cpc' = "done"
    /\ UNCHANGED <<card_id, full_history, pos, max_pipeline_index>>

-----------------------------------------------------------------------------
(* The cleaner as a function of one raw history (lines 137-176) *)

\* variant: a name that is neither a pipeline stage nor a final state is kept
RECURSIVE CleanFrom_KeepsOthers(_, _, _, _)
CleanFrom_KeepsOthers(history_in, p, history, max_index) ==
    IF p >= Len(history_in) THEN EnsureNonEmpty(history)
    ELSE LET normalized == NormalizedName[history_in[p + 1]]
             current_index == ListIndex(PIPELINE_STAGES, normalized)
         IN  IF InList(normalized, FINAL_STATES)
             THEN EnsureNonEmpty(Append(history, normalized))
             ELSE IF InList(normalized, PIPELINE_STAGES)
             THEN IF IsBackward(current_index, max_index)
                  THEN CleanFrom_KeepsOthers(history_in, p + 1, history, max_index)
                  ELSE CleanFrom_KeepsOthers(history_in, p + 1,
                                             Advance(history, normalized, max_index),
                                             current_index)
             ELSE CleanFrom_KeepsOthers(history_in, p + 1,
                                        Append(history, normalized), max_index)

RECURSIVE CleanFrom(_, _, _, _)
CleanFrom(history_in, p, history, max_index) ==
    IF p >= Len(history_in) THEN EnsureNonEmpty(history)
    ELSE LET normalized == NormalizedName[history_in[p + 1]]
             current_index == ListIndex(PIPELINE_STAGES, normalized)
         IN  IF InList(normalized, FINAL_STATES)
             THEN EnsureNonEmpty(Append(history, normalized))
             ELSE IF InList(normalized, PIPELINE_STAGES)
             THEN IF IsBackward(current_index, max_index)
                  THEN CleanFrom(history_in, p + 1, history, max_index)
                  ELSE CleanFrom(history_in, p + 1,
                                 Advance(history, normalized, max_index),
                                 current_index)
             ELSE CleanFrom(history_in, p + 1, history, max_index)

CleanedStages(history_in) == CleanFrom(history_in, 0, <<>>, -1)

\* the list names of the boards whose cleaned histories are graphed
JourneyLabels ==
    { "To Apply", "Phone Screen", "Final Rounds", "Accept", "Rejection",
      "Random Stage" }

\* every stages list the cleaner returns for such a board
CleanedSet == {CleanedStages(h) : h \in SeqsUpTo(JourneyLabels, MaxLen)}

-----------------------------------------------------------------------------
(* graph.py: StageNode *)

\* a defaultdict(int) in insertion order: a sequence of [key, count]
DictHas(d, k) == \E i \in DOMAIN d : d[i].key = k

DictGet(d, k) == IF DictHas(d, k) THEN d[CHOOSE i \in DOMAIN d : d[i].key = k].count ELSE 0

\* d[k] += count
DictAdd(d, k, count) ==
    IF DictHas(d, k)
    THEN [i \in DOMAIN d |-> IF d[i].key = k
                             THEN [key |-> k, count |-> d[i].count + count]
                             ELSE d[i]]
    ELSE Append(d, [key |-> k, count |-> count])

RECURSIVE SumValues(_)
SumValues(d) == IF d = <<>> THEN 0 ELSE d[1].count + SumValues(Tail(d))

StageNode(name, is_final) ==
    [name |-> name, is_final |-> is_final,
     incoming_edges |-> <<>>, outgoing_edges |-> <<>>]

add_incoming_flow(node, from_stage, count) ==
    [node EXCEPT !.incoming_edges = DictAdd(@, from_stage, count)]

add_outgoing_flow(node, to_stage, count) ==
    [node EXCEPT !.outgoing_edges = DictAdd(@, to_stage, count)]

total_incoming(node) == SumValues(node.incoming_edges)

total_outgoing(node) == SumValues(node.outgoing_edges)

Max(a, b) == IF a >= b THEN a ELSE b

\* variant: the cards that moved on are counted as waiting too
calculate_waiting_IgnoresOutgoing(node) ==
    IF node.is_final THEN 0
    ELSE Max(0, total_incoming(node))

\* variant: a final stage holds waiting cards like any other stage
calculate_waiting_NoFinal(node) ==
    Max(0, total_incoming(node) - total_outgoing(node))

calculate_waiting(node) ==
    IF node.is_final THEN 0
    ELSE Max(0, total_incoming(node) - total_outgoing(node))

-----------------------------------------------------------------------------
(* graph.py: FlowGraph *)

\* self.nodes, a dict in insertion order: a sequence of StageNodes
HasNode(ns, name) == \E i \in DOMAIN ns : ns[i].name = name

NodeAt(ns, name) == CHOOSE i \in DOMAIN ns : ns[i].name = name

Node(ns, name) == ns[NodeAt(ns, name)]

\* variant: the constructor adds no Waiting node
NewNodes_NoWaiting ==
    [i \in 1..Len(PIPELINE_STAGES) |->
        StageNode(PIPELINE_STAGES[i], InList(PIPELINE_STAGES[i], FINAL_STATES))]
    \o [i \in 1..Len(FINAL_STATES) |-> StageNode(FINAL_STATES[i], TRUE)]

\* FlowGraph.__init__
NewNodes ==
    [i \in 1..Len(PIPELINE_STAGES) |->
        StageNode(PIPELINE_STAGES[i], InList(PIPELINE_STAGES[i], FINAL_STATES))]
    \o [i \in 1..Len(FINAL_STATES) |-> StageNode(FINAL_STATES[i], TRUE)]
    \o <<StageNode("Waiting", TRUE)>>

\* lines 74-80: ensure both stages exist in the graph
EnsureNodes(ns, from_stage, to_stage) ==
    LET with_from == IF HasNode(ns, from_stage) THEN ns
                     ELSE Append(ns, StageNode(from_stage, FALSE))
    IN  IF HasNode(with_from, to_stage) THEN with_from
        ELSE Append(with_from, StageNode(to_stage, InList(to_stage, FINAL_STATES)))

\* variant: the incoming flow is filed under the target stage
AddFlow_WrongKey(ns, from_stage, to_stage, count) ==
    LET out == [ns EXCEPT ![NodeAt(ns, from_stage)] =
                              add_outgoing_flow(@, to_stage, count)]
    IN  [out EXCEPT ![NodeAt(out, to_stage)] = add_incoming_flow(@, to_stage, count)]

\* lines 82-84: add the flow from_stage -> to_stage
AddFlow(ns, from_stage, to_stage, count) ==
    LET out == [ns EXCEPT ![NodeAt(ns, from_stage)] =
                              add_outgoing_flow(@, to_stage, count)]
    IN  [out EXCEPT ![NodeAt(out, to_stage)] = add_incoming_flow(@, from_stage, count)]

\* the loop of add_card_journey from position i (0-based) on
RECURSIVE AddTransitions(_, _, _)
AddTransitions(ns, stages, i) ==
    IF i >= Len(stages) - 1 THEN ns
    ELSE AddTransitions(
             AddFlow(EnsureNodes(ns, stages[i + 1], stages[i + 2]),
                     stages[i + 1], stages[i + 2], 1),
             stages, i + 1)

\* variant: the first pipeline stage is treated like every other node
WaitingCards_NoEntry(ns, i, card_total) == calculate_waiting(ns[i])

\* lines 109-118: the waiting cards of node i
WaitingCards(ns, i, card_total) ==
    IF ns[i].name = PIPELINE_STAGES[1] /\ total_incoming(ns[i]) = 0
    THEN Max(0, card_total - total_outgoing(ns[i]))
    ELSE calculate_waiting(ns[i])

\* the second loop of calculate_waiting_flows from node i (1-based) on
RECURSIVE WaitingFrom(_, _, _)
WaitingFrom(ns, i, card_total) ==
    IF i > Len(ns) THEN ns
    ELSE IF ns[i].name = "Waiting" THEN WaitingFrom(ns, i + 1, card_total)
    ELSE IF WaitingCards(ns, i, card_total) > 0
         THEN WaitingFrom(AddFlow(ns, ns[i].name, "Waiting", WaitingCards(ns, i, card_total)),
                          i + 1, card_total)
         ELSE WaitingFrom(ns, i + 1, card_total)

\* get_flows: one FlowData per outgoing edge, node by node, from node i on
RECURSIVE FlowsFrom(_, _)
FlowsFrom(ns, i) ==
    IF i > Len(ns) THEN <<>>
    ELSE [e \in DOMAIN ns[i].outgoing_edges |->
             [from_stage |-> ns[i].name,
              to_stage |-> ns[i].outgoing_edges[e].key,
              count |-> ns[i].outgoing_edges[e].count]]
         \o FlowsFrom(ns, i + 1)

\* variant: the edges into Waiting are left out of the flows
get_flows_NoWaiting(ns) ==
    LET NotWaiting(flow) == flow.to_stage # "Waiting"
    IN  SelectSeq(FlowsFrom(ns, 1), NotWaiting)

get_flows(ns) == FlowsFrom(ns, 1)

\* models.py: FlowData, count: int = Field(gt=0)
FlowDataValid(flow) == flow.count > 0

-----------------------------------------------------------------------------
(* models.py: SankeyData.to_sankeymatic_string *)

node_ranks ==
    << [key |-> "Rejected", count |-> 0],
       [key |-> "Rejected by me", count |-> 1],
       [key |-> "Discriminated", count |-> 2],
       [key |-> "Applications", count |-> 3],
       [key |-> "Screening", count |-> 4],
       [key |-> "Technical assessment", count |-> 5],
       [key |-> "Final rounds", count |-> 6],
       [key |-> "Offers", count |-> 7],
       [key |-> "Accepted", count |-> 8],
       [key |-> "Waiting", count |-> 9] >>

\* node_ranks.get(name, 99)
RankOf(name) == IF DictHas(node_ranks, name) THEN DictGet(node_ranks, name) ELSE 99

\* variant: the key ranks the source stage only
sort_key_FromOnly(flow) == <<RankOf(flow.from_stage), 0>>

sort_key(flow) == <<RankOf(flow.from_stage), RankOf(flow.to_stage)>>

\* the order of Python tuples: a < b
KeyLess(a, b) == a[1] < b[1] \/ (a[1] = b[1] /\ a[2] < b[2])

\* variant: a flow goes in front of the flows of an equal key
InsertSorted_Unstable(done, flow) ==
    LET before == {i \in DOMAIN done : KeyLess(sort_key(done[i]), sort_key(flow))}
        n == Cardinality(before)
    IN  SubSeq(done, 1, n) \o <<flow>> \o SubSeq(done, n + 1, Len(done))

\* a stable sort puts a later flow behind every flow whose key is not greater
InsertSorted(done, flow) ==
    LET before == {i \in DOMAIN done : ~KeyLess(sort_key(flow), sort_key(done[i]))}
        n == Cardinality(before)
    IN  SubSeq(done, 1, n) \o <<flow>> \o SubSeq(done, n + 1, Len(done))

\* sorted(self.flows, key=sort_key)
RECURSIVE sorted_flows(_)
sorted_flows(fs) ==
    IF fs = <<>> THEN <<>>
    ELSE InsertSorted(sorted_flows(SubSeq(fs, 1, Len(fs) - 1)), fs[Len(fs)])

\* FlowData.to_sankeymatic_format: f"{from_stage} [{count}] {to_stage}"
to_sankeymatic_format(flow) == <<flow.from_stage, " [", flow.count, "] ", flow.to_stage>>

\* the lines appended after the flows
ColorLines ==
    << <<"\n// Colors">>, <<":Rejected #ff4d4d">>, <<":Rejected by me #ff4d4d">>,
       <<":Discriminated #ff4d4d">>, <<":Waiting #cccccc">>, <<":Accepted #4CAF50">> >>

\* the lines that "\n".join(lines) joins
to_sankeymatic_string(fs) ==
    LET sorted == sorted_flows(fs)
    IN  [i \in DOMAIN sorted |-> to_sankeymatic_format(sorted[i])] \o ColorLines

\* the journeys add_card_journey is called with: the cleaner's results, the
\* empty list, journeys through stages that are no node of a new graph, and a
\* journey that enters the first pipeline stage
JourneyInputs ==
    CleanedSet
    \cup { <<>>, <<"Random Stage">>, <<"Applications", "Random Stage">>,
           <<"Random Stage", "Accepted">>, <<"Random Stage", "Random Stage">>,
           <<"Other Stage", "Accepted">>, <<"Screening", "Applications">> }

\* build_flow_graph_from_histories: graph = FlowGraph(...)
GraphInit ==
    /\ card_id = ""
    /\ full_history = <<>>
    /\ pos = 0
    /\ clean_history = <<>>
    /\ max_pipeline_index = -1
    /\ cpc = "idle"
    /\ clean_histories = <<>>
    /\ nodes = NewNodes
    /\ total_cards = 0
    /\ card_histories = <<>>
    /\ waiting_passes = 0
    /\ gpc = "build"
    /\ flows = <<>>
    /\ output = <<>>
    /\ lists = <<>>
    /\ cards = <<>>
    /\ actions = <<>>
    /\ card_movements = <<>>
    /\ pc = "idle"
    /\ trace = <<>>
    /\ results = <<>>

\* add_card_journey(stages) with an empty list: return
AddEmptyJourney ==
    /\ UNCHANGED <<cleanVars, genVars, flows, output>>
    /\ gpc = "build"
    /\ Len(card_histories) < MaxCards
    /\ <<>> \in JourneyInputs
    /\ card_histories' = Append(card_histories, <<>>)
    /\ UNCHANGED <<nodes, total_cards, waiting_passes, gpc>>

\* variant: total_cards is counted once per transition
AddCardJourney_CountsTransitions ==
    /\ UNCHANGED <<cleanVars, genVars, flows, output>>
    /\ gpc = "build"
    /\ Len(card_histories) < MaxCards
    /\ \E stages \in JourneyInputs \ {<<>>} :
          /\ total_cards' = total_cards + (Len(stages) - 1)
          /\ nodes' = AddTransitions(nodes, stages, 0)
          /\ card_histories' = Append(card_histories, stages)
    /\ UNCHANGED <<waiting_passes, gpc>>

\* add_card_journey(stages)
AddCardJourney ==
    /\ UNCHANGED <<cleanVars, genVars, flows, output>>
    /\ gpc = "build"
    /\ Len(card_histories) < MaxCards
    /\ \E stages \in JourneyInputs \ {<<>>} :
          /\ total_cards' = total_cards + 1
          /\ nodes' = AddTransitions(nodes, stages, 0)
          /\ card_histories' = Append(card_histories, stages)
    /\ UNCHANGED <<waiting_passes, gpc>>

\* calculate_waiting_flows()
CalculateWaitingFlows ==
    /\ UNCHANGED <<cleanVars, genVars, flows, output>>
    /\ gpc \in {"build", "resolved"}
    /\ waiting_passes < MaxPasses
    /\ nodes' = WaitingFrom(nodes, 1, total_cards)
    /\ waiting_passes' = waiting_passes + 1
    /\ gpc' = "resolved"
    /\ UNCHANGED <<total_cards, card_histories>>

\* to_sankey_data(): calculate_waiting_flows(), then get_flows(); a FlowData
\* whose count is not positive raises pydantic's ValidationError
ToSankeyData ==
    /\ UNCHANGED <<cleanVars, genVars, output>>
    /\ gpc \in {"build", "resolved"}
    /\ waiting_passes < MaxPasses
    /\ nodes' = WaitingFrom(nodes, 1, total_cards)
    /\ waiting_passes' = waiting_passes + 1
    /\ LET made == get_flows(nodes')
       IN  IF \A i \in DOMAIN made : FlowDataValid(made[i])
           THEN flows' = made /\ gpc' = "reported"
           ELSE flows' = flows /\ gpc' = "raised"
    /\ UNCHANGED <<total_cards, card_histories>>

\* sankey_data.to_sankeymatic_string()
ToSankeymaticString ==
    /\ UNCHANGED <<cleanVars, genVars>>
    /\ gpc = "reported"
    /\ output' = to_sankeymatic_string(flows)
    /\ gpc' = "formatted"
    /\ UNCHANGED <<nodes, total_cards, card_histories, waiting_passes, flows>>

-----------------------------------------------------------------------------
(* generator.py: _build_card_histories and generate_sankeymatic_data *)

\* the lists of the board
BoardLists ==
    << [id |-> "L1", name |-> "To Apply"],
       [id |-> "L2", name |-> "Accept"],
       [id |-> "L3", name |-> "Random Stage"],
       [id |-> "L4", name |-> "Unknown Stage"] >>

\* the list ids a card or an action may name; L9 is no list of the board
ListRefs == {"L1", "L2", "L3", "L4", "L9"}

CardIds == {"card1", "card2"}

\* action.data of a createCard action with data.list
CreateEvents ==
    {[type |-> "createCard", card |-> c, list |-> l,
      listBefore |-> "None", listAfter |-> "None"] : c \in CardIds, l \in ListRefs}

\* action.data of an updateCard action with listBefore and listAfter
MoveEvents ==
    {[type |-> "updateCard", card |-> c, list |-> "None",
      listBefore |-> "L1", listAfter |-> l] : c \in CardIds, l \in ListRefs}

\* actions neither branch takes: a createCard without data.list, an updateCard
\* without listBefore and listAfter
OtherEvents ==
    {[type |-> "createCard", card |-> "card1", list |-> "None",
      listBefore |-> "None", listAfter |-> "None"],
     [type |-> "updateCard", card |-> "card1", list |-> "None",
      listBefore |-> "None", listAfter |-> "None"]}

\* logs of one card with a create and two moves in every order, and a log
\* whose newest action creates the card again
LongLogs ==
    LET create == [type |-> "createCard", card |-> "card1", list |-> "L1",
                   listBefore |-> "None", listAfter |-> "None"]
        again ==  [type |-> "createCard", card |-> "card1", list |-> "L4",
                   listBefore |-> "None", listAfter |-> "None"]
        to_L3 ==  [type |-> "updateCard", card |-> "card1", list |-> "None",
                   listBefore |-> "L1", listAfter |-> "L3"]
        to_L2 ==  [type |-> "updateCard", card |-> "card1", list |-> "None",
                   listBefore |-> "L1", listAfter |-> "L2"]
    IN  { <<to_L2, to_L3, create>>, <<to_L3, to_L2, create>>,
          <<to_L2, create, to_L3>>, <<to_L3, create, to_L2>>,
          <<create, to_L2, to_L3>>, <<create, to_L3, to_L2>>,
          <<again, to_L2, create>> }

\* what get_board_actions may return, newest first
ActionLogs ==
    SeqsUpTo(CreateEvents \cup MoveEvents \cup OtherEvents, MaxActions) \cup LongLogs

\* what get_board_cards may return
BoardCardSets ==
    { <<>>,
      <<[id |-> "card1", idList |-> "L2"]>>,
      <<[id |-> "card1", idList |-> "L2"], [id |-> "card2", idList |-> "L9"]>> }

\* list_id_to_name.get(list_id, "Unknown")
ListName(ls, list_id) ==
    IF \E i \in DOMAIN ls : ls[i].id = list_id
    THEN ls[CHOOSE i \in DOMAIN ls : ls[i].id = list_id].name
    ELSE "Unknown"

\* card_movements, a dict in insertion order: a sequence of [key, value]
HasCard(cm, id) == \E i \in DOMAIN cm : cm[i].key = id

\* variant: a create of a card that has a history extends it
SetHistory_Extends(cm, id, list_name) ==
    IF HasCard(cm, id)
    THEN [i \in DOMAIN cm |-> IF cm[i].key = id
                              THEN [key |-> id, value |-> Append(cm[i].value, list_name)]
                              ELSE cm[i]]
    ELSE Append(cm, [key |-> id, value |-> <<list_name>>])

\* card_movements[id] = [list_name]
SetHistory(cm, id, list_name) ==
    IF HasCard(cm, id)
    THEN [i \in DOMAIN cm |-> IF cm[i].key = id
                              THEN [key |-> id, value |-> <<list_name>>]
                              ELSE cm[i]]
    ELSE Append(cm, [key |-> id, value |-> <<list_name>>])

\* card_movements[id].append(to_list)
AppendMove(cm, id, to_list) ==
    [i \in DOMAIN cm |-> IF cm[i].key = id
                         THEN [key |-> id, value |-> Append(cm[i].value, to_list)]
                         ELSE cm[i]]

\* variant: a move of a card without history starts one (the defaultdict's
\* list is appended to without the membership test)
ApplyAction_MoveCreates(cm, ls, action) ==
    IF action.type = "createCard" /\ action.list # "None"
    THEN SetHistory(cm, action.card, ListName(ls, action.list))
    ELSE IF /\ action.type = "updateCard"
            /\ action.listBefore # "None"
            /\ action.listAfter # "None"
         THEN IF HasCard(cm, action.card)
              THEN AppendMove(cm, action.card, ListName(ls, action.listAfter))
              ELSE SetHistory(cm, action.card, ListName(ls, action.listAfter))
         ELSE cm

\* lines 95-112: the body of the loop over the actions
ApplyAction(cm, ls, action) ==
    IF action.type = "createCard" /\ action.list # "None"
    THEN SetHistory(cm, action.card, ListName(ls, action.list))
    ELSE IF /\ action.type = "updateCard"
            /\ action.listBefore # "None"
            /\ action.listAfter # "None"
         THEN IF HasCard(cm, action.card)
              THEN AppendMove(cm, action.card, ListName(ls, action.listAfter))
              ELSE cm
         ELSE cm

\* variant: the actions are processed in delivery order, newest first
RECURSIVE ApplyActions_Forward(_, _, _, _)
ApplyActions_Forward(cm, ls, acts, i) ==
    IF i < 1 THEN cm
    ELSE ApplyActions_Forward(ApplyAction(cm, ls, acts[Len(acts) - i + 1]), ls, acts, i - 1)

\* for action in reversed(actions): the actions at positions i, i - 1, .., 1
RECURSIVE ApplyActions(_, _, _, _)
ApplyActions(cm, ls, acts, i) ==
    IF i < 1 THEN cm
    ELSE ApplyActions(ApplyAction(cm, ls, acts[i]), ls, acts, i - 1)

\* variant: every board card gets an entry of its own, tracked or not
RECURSIVE AddCurrentLists_Always(_, _, _, _)
AddCurrentLists_Always(cm, ls, cs, i) ==
    IF i > Len(cs) THEN cm
    ELSE AddCurrentLists_Always(
             Append(cm, [key |-> cs[i].id, value |-> <<ListName(ls, cs[i].idList)>>]),
             ls, cs, i + 1)

\* lines 115-118: cards without movement history, from card i on
RECURSIVE AddCurrentLists(_, _, _, _)
AddCurrentLists(cm, ls, cs, i) ==
    IF i > Len(cs) THEN cm
    ELSE IF HasCard(cm, cs[i].id) THEN AddCurrentLists(cm, ls, cs, i + 1)
    ELSE AddCurrentLists(SetHistory(cm, cs[i].id, ListName(ls, cs[i].idList)),
                         ls, cs, i + 1)

\* lines 91-118 of _build_card_histories
BuildMovements(ls, cs, acts) ==
    AddCurrentLists(ApplyActions(<<>>, ls, acts, Len(acts)), ls, cs, 1)

\* _clean_backward_movements(card_movements): one CardHistory per item
CleanAll(cm) ==
    [i \in DOMAIN cm |-> [card_id |-> cm[i].key, stages |-> CleanedStages(cm[i].value)]]

\* models.py: CardHistory.stages_not_empty
CardHistoryValid(history) == history.stages # <<>>

\* add_card_journey for the histories from i on, on the graph g
RECURSIVE AddHistories(_, _, _)
AddHistories(g, histories, i) ==
    IF i > Len(histories) THEN g
    ELSE IF histories[i].stages = <<>> THEN AddHistories(g, histories, i + 1)
    ELSE AddHistories([nodes |-> AddTransitions(g.nodes, histories[i].stages, 0),
                       total_cards |-> g.total_cards + 1],
                      histories, i + 1)

\* variant: one FlowGraph is kept by the generator and used by every call
build_flow_graph_from_histories_Kept(histories) ==
    AddHistories(IF nodes = <<>> THEN [nodes |-> NewNodes, total_cards |-> 0]
                 ELSE [nodes |-> nodes, total_cards |-> total_cards],
                 histories, 1)

\* graph.py 186-197: a new FlowGraph, then add_card_journey per history
build_flow_graph_from_histories(histories) ==
    AddHistories([nodes |-> NewNodes, total_cards |-> 0], histories, 1)

\* generate_sankeymatic_data is called on a generator whose client answers
\* with the board's lists, cards and actions
GenInit ==
    /\ card_id = ""
    /\ full_history = <<>>
    /\ pos = 0
    /\ clean_history = <<>>
    /\ max_pipeline_index = -1
    /\ cpc = "idle"
    /\ clean_histories = <<>>
    /\ nodes = <<>>
    /\ total_cards = 0
    /\ card_histories = <<>>
    /\ waiting_passes = 0
    /\ gpc = "idle"
    /\ flows = <<>>
    /\ output = <<>>
    /\ lists = BoardLists
    /\ cards \in BoardCardSets
    /\ actions \in ActionLogs
    /\ card_movements = <<>>
    /\ pc = "fetch_lists"
    /\ trace = <<>>
    /\ results = <<>>

\* the client method called at each position of lines 87-89
FetchAt(at) ==
    CASE at = "fetch_lists" -> "get_board_lists"
      [] at = "fetch_cards" -> "get_board_cards"
      [] at = "fetch_actions" -> "get_board_actions"

\* except Exception as e: raise TrelloAPIError(...) from e
Raised(cause) == [kind |-> "TrelloAPIError", value |-> <<>>, cause |-> cause]

\* return value
Returned(value) == [kind |-> "return", value |-> value, cause |-> "None"]

\* line 87: lists = self.client.get_board_lists(board_id)
FetchLists ==
    /\ pc = "fetch_lists"
    /\ trace' = Append(trace, FetchAt(pc))
    /\ pc' = "fetch_cards"
    /\ UNCHANGED <<cleanVars, graphVars, lists, cards, actions, card_movements, results>>

\* line 88: cards = self.client.get_board_cards(board_id)
FetchCards ==
    /\ pc = "fetch_cards"
    /\ trace' = Append(trace, FetchAt(pc))
    /\ pc' = "fetch_actions"
    /\ UNCHANGED <<cleanVars, graphVars, lists, cards, actions, card_movements, results>>

\* line 89: actions = self.client.get_board_actions(board_id)
FetchActions ==
    /\ pc = "fetch_actions"
    /\ trace' = Append(trace, FetchAt(pc))
    /\ pc' = "build"
    /\ UNCHANGED <<cleanVars, graphVars, lists, cards, actions, card_movements, results>>

\* variant: a failed fetch is taken for an empty answer and the call goes on
FetchFails_Swallowed ==
    /\ pc \in {"fetch_lists", "fetch_cards", "fetch_actions"}
    /\ trace' = Append(trace, FetchAt(pc))
    /\ results' = Append(results, Raised(FetchAt(pc)))
    /\ pc' = "build"
    /\ UNCHANGED <<cleanVars, graphVars, lists, cards, actions, card_movements>>

\* a fetch raises TrelloAPIError: nothing catches it before line 233
FetchFails ==
    /\ pc \in {"fetch_lists", "fetch_cards", "fetch_actions"}
    /\ trace' = Append(trace, FetchAt(pc))
    /\ results' = Append(results, Raised(FetchAt(pc)))
    /\ pc' = "raised"
    /\ UNCHANGED <<cleanVars, graphVars, lists, cards, actions, card_movements>>

\* lines 91-118: card_movements from the actions, oldest first, and the cards
BuildCardMovements ==
    /\ pc = "build"
    /\ card_movements' = BuildMovements(lists, cards, actions)
    /\ trace' = Append(trace, "card_movements")
    /\ pc' = "clean"
    /\ UNCHANGED <<cleanVars, graphVars, lists, cards, actions, results>>

\* line 120: _clean_backward_movements(card_movements); an empty CardHistory
\* raises pydantic's ValidationError
CleanBackwardMovements ==
    /\ pc = "clean"
    /\ trace' = Append(trace, "_clean_backward_movements")
    /\ LET made == CleanAll(card_movements)
       IN  IF \A i \in DOMAIN made : CardHistoryValid(made[i])
           THEN clean_histories' = made /\ pc' = "histories" /\ results' = results
           ELSE /\ clean_histories' = clean_histories
                /\ pc' = "raised"
                /\ results' = Append(results, Raised("ValidationError"))
    /\ UNCHANGED <<card_id, full_history, pos, clean_history, max_pipeline_index, cpc>>
    /\ UNCHANGED <<graphVars, lists, cards, actions, card_movements>>

\* lines 218-219: if not clean_histories: return
ReturnNoData ==
    /\ pc = "histories"
    /\ clean_histories = <<>>
    /\ results' = Append(results, Returned(<< <<"No job application data found.">> >>))
    /\ pc' = "returned"
    /\ UNCHANGED <<cleanVars, graphVars, lists, cards, actions, card_movements, trace>>

\* line 222: _calculate_flows(clean_histories): a new graph, the journeys,
\* to_sankey_data
CalculateFlows ==
    /\ pc = "histories"
    /\ clean_histories # <<>>
    /\ trace' = Append(trace, "_calculate_flows")
    /\ LET graph == build_flow_graph_from_histories(clean_histories)
           resolved == WaitingFrom(graph.nodes, 1, graph.total_cards)
           made == get_flows(resolved)
       IN  /\ nodes' = resolved
           /\ total_cards' = graph.total_cards
           /\ card_histories' = [i \in DOMAIN clean_histories |-> clean_histories[i].stages]
           /\ waiting_passes' = 1
           /\ IF \A i \in DOMAIN made : FlowDataValid(made[i])
              THEN flows' = made /\ gpc' = "reported" /\ pc' = "flows"
                   /\ results' = results
              ELSE flows' = flows /\ gpc' = "raised" /\ pc' = "raised"
                   /\ results' = Append(results, Raised("ValidationError"))
    /\ UNCHANGED <<cleanVars, output, lists, cards, actions, card_movements>>

\* lines 224-231: the second early return, or format, print and return
FormatOutput ==
    /\ pc = "flows"
    /\ IF flows = <<>>
       THEN /\ results' = Append(results, Returned(<< <<"No flows generated from the data.">> >>))
            /\ UNCHANGED <<output, trace, gpc>>
       ELSE /\ output' = to_sankeymatic_string(flows)
            /\ gpc' = "formatted"
            /\ trace' = trace \o <<"to_sankeymatic_string", "print">>
            /\ results' = Append(results, Returned(output'))
    /\ pc' = "returned"
    /\ UNCHANGED <<cleanVars, nodes, total_cards, card_histories, waiting_passes, flows>>
    /\ UNCHANGED <<lists, cards, actions, card_movements>>

\* the same generator is called again, on the same board
CallAgain ==
    /\ pc = "returned"
    /\ Len(results) < MaxCalls
    /\ pc' = "fetch_lists"
    /\ trace' = <<>>
    /\ UNCHANGED <<cleanVars, graphVars, lists, cards, actions, card_movements, results>>

CleanNext ==
    \/ StageFinal
    \/ StageBackward
    \/ StageForward
    \/ StageUnknown
    \/ StageOther
    \/ FinishCard

GraphNext ==
    \/ AddEmptyJourney
    \/ AddCardJourney
    \/ CalculateWaitingFlows
    \/ ToSankeyData
    \/ ToSankeymaticString

GenNext ==
    \/ FetchLists
    \/ FetchCards
    \/ FetchActions
    \/ FetchFails
    \/ BuildCardMovements
    \/ CleanBackwardMovements
    \/ ReturnNoData
    \/ CalculateFlows
    \/ FormatOutput
    \/ CallAgain

SpecClean == CleanInit /\ [][CleanNext]_vars

SpecGraph == GraphInit /\ [][GraphNext]_vars

Spec == GenInit /\ [][GenNext]_vars

-----------------------------------------------------------------------------
(* Properties of the cleaner, checked under SpecClean *)

Norm(label) == NormalizedName[label]

IsPipe(name) == InList(name, PIPELINE_STAGES)

IsFin(name) == InList(name, FINAL_STATES)

Idx(name) == ListIndex(PIPELINE_STAGES, name)

\* the positions of the raw labels that normalize to a final state
TerminalAt(h) == {i \in DOMAIN h : IsFin(Norm(h[i]))}

FirstOf(S) == CHOOSE i \in S : \A j \in S : i <= j

\* the positions of the pipeline labels the loop gets to
PipelineAt(h) ==
    {i \in DOMAIN h : IsPipe(Norm(h[i])) /\ \A j \in TerminalAt(h) : i < j}

\* label i is a pipeline stage below the highest pipeline index seen before it
BackwardAt(h, i) ==
    /\ IsPipe(Norm(h[i]))
    /\ \E j \in 1..(i - 1) : IsPipe(Norm(h[j])) /\ Idx(Norm(h[i])) < Idx(Norm(h[j]))

RemoveAt(h, i) == SubSeq(h, 1, i - 1) \o SubSeq(h, i + 1, Len(h))

\* the one history returned is the local clean_history
ReturnedIsLocal ==
    clean_histories = <<[card_id |-> card_id, stages |-> clean_history]>>

\* C1: every history returned by _clean_backward_movements is non-empty, the
\* pipeline indices of its pipeline-stage elements never decrease from left to
\* right, and no two adjacent elements are equal.
C1_CleanedHistoryOrdered ==
    cpc = "done" =>
        /\ Len(clean_histories) = 1
        /\ \A c \in DOMAIN clean_histories :
              LET h == clean_histories[c].stages
              IN  /\ h # <<>>
                  /\ \A i, j \in DOMAIN h :
                        (i < j /\ IsPipe(h[i]) /\ IsPipe(h[j])) => Idx(h[i]) <= Idx(h[j])
                  /\ \A i \in 1..(Len(h) - 1) : h[i] # h[i + 1]

\* a card that stayed in a pipeline list and then moved backward has been cleaned
C1_Witness ==
    /\ cpc = "done"
    /\ Len(full_history) = 3
    /\ IsPipe(Norm(full_history[1]))
    /\ Norm(full_history[2]) = Norm(full_history[1])
    /\ BackwardAt(full_history, 3)
    /\ Len(clean_histories) = 1

\* C2: a terminal stage occurs in a cleaned history only as its last element;
\* the loop never gets past the first label that normalizes to a terminal
\* stage, and the history returned is that of the labels up to that one.
C2_TerminalIsLast ==
    /\ \A i \in 1..(Len(clean_history) - 1) : ~IsFin(clean_history[i])
    /\ TerminalAt(full_history) # {} =>
          LET k == FirstOf(TerminalAt(full_history))
          IN  /\ pos <= k - 1
              /\ cpc \in {"break", "done"} =>
                    /\ clean_history = CleanedStages(SubSeq(full_history, 1, k))
                    /\ clean_history[Len(clean_history)] = Norm(full_history[k])
    /\ cpc = "done" => ReturnedIsLocal

\* a terminal label was followed by a pipeline label beyond the progress made
C2_Witness ==
    /\ cpc = "done"
    /\ TerminalAt(full_history) # {}
    /\ \E j \in DOMAIN full_history :
          /\ j > FirstOf(TerminalAt(full_history))
          /\ IsPipe(Norm(full_history[j]))
          /\ Idx(Norm(full_history[j])) > max_pipeline_index
    /\ IsFin(clean_history[Len(clean_history)])

\* C5: a label that normalizes to a pipeline stage below the highest pipeline
\* index already seen is below max_pipeline_index; the step that takes it leaves
\* clean_history and max_pipeline_index as they are; and the history returned
\* is that of the raw list without this label.
C5_BackwardDiscarded ==
    /\ [](/\ \A i \in DOMAIN full_history :
                (InLoop /\ i = pos + 1 /\ BackwardAt(full_history, i))
                    => Idx(Norm(Stage)) < max_pipeline_index
          /\ cpc = "done" =>
                \A i \in DOMAIN full_history :
                    BackwardAt(full_history, i) =>
                        /\ clean_history = CleanedStages(RemoveAt(full_history, i))
                        /\ ReturnedIsLocal)
    /\ [][(InLoop /\ IsPipe(Norm(Stage)) /\ Idx(Norm(Stage)) < max_pipeline_index)
            => /\ clean_history' = clean_history
               /\ max_pipeline_index' = max_pipeline_index
               /\ pos' = pos + 1
               /\ cpc' = cpc]_vars

\* the label just taken lies below the progress made: it was discarded
C5_Witness ==
    /\ cpc = "loop"
    /\ pos = 2
    /\ BackwardAt(full_history, 2)
    /\ Idx(Norm(full_history[2])) < max_pipeline_index
    /\ clean_history = <<Norm(full_history[1])>>

\* C6: a label that normalizes to a pipeline stage more than one above the
\* highest pipeline index seen so far has every pipeline stage in between
\* appended before it, in pipeline order; so adjacent pipeline-stage elements
\* of a cleaned history have pipeline indices that differ by exactly 1.
C6_GapFilled ==
    /\ [](\A i \in 1..(Len(clean_history) - 1) :
              (IsPipe(clean_history[i]) /\ IsPipe(clean_history[i + 1]))
                  => Idx(clean_history[i + 1]) = Idx(clean_history[i]) + 1)
    /\ [][(/\ InLoop
           /\ IsPipe(Norm(Stage))
           /\ max_pipeline_index # -1
           /\ Idx(Norm(Stage)) > max_pipeline_index + 1)
            => clean_history' =
                   clean_history
                   \o SubSeq(PIPELINE_STAGES, max_pipeline_index + 2, Idx(Norm(Stage)))
                   \o <<Norm(Stage)>>]_vars

\* the second label skipped at least one stage and the gap is in the history
C6_Witness ==
    /\ pos = 2
    /\ IsPipe(Norm(full_history[1]))
    /\ IsPipe(Norm(full_history[2]))
    /\ Idx(Norm(full_history[2])) >= Idx(Norm(full_history[1])) + 2
    /\ Len(clean_history) = Idx(Norm(full_history[2])) - Idx(Norm(full_history[1])) + 1

\* C7, as claimed: gap filling applies from max_pipeline_index = -1, so every
\* cleaned history that contains a pipeline stage begins with the first
\* pipeline stage.
C7_Original ==
    (cpc = "done" /\ \E i \in DOMAIN clean_history : IsPipe(clean_history[i]))
        => clean_history[1] = PIPELINE_STAGES[1]

\* C7, amended: gaps are filled only once a pipeline stage has been seen
\* (max_pipeline_index # -1). The first pipeline stage seen is appended alone,
\* whatever its index k, so the cleaned history of a card seen at a pipeline
\* stage begins with the first pipeline stage it was seen at (a card seen at
\* no pipeline stage gets its terminal stage alone, or else the default
\* <<"Applications">>); a later label with idx > max_pipeline_index + 1 has
\* the stages max_pipeline_index+1 .. idx-1 appended before it.
C7_GapFillAfterFirst ==
    /\ [](cpc = "done" =>
            /\ PipelineAt(full_history) # {} =>
                   /\ clean_history[1] = Norm(full_history[FirstOf(PipelineAt(full_history))])
                   /\ ReturnedIsLocal
            /\ PipelineAt(full_history) = {} =>
                   IF TerminalAt(full_history) = {}
                   THEN clean_history = <<"Applications">>
                   ELSE /\ Len(clean_history) = 1
                        /\ IsFin(clean_history[1]))
    /\ [][(InLoop /\ IsPipe(Norm(Stage)) /\ max_pipeline_index = -1)
            => /\ clean_history' = <<Norm(Stage)>>
               /\ max_pipeline_index' = Idx(Norm(Stage))]_vars
    /\ [][(/\ InLoop
           /\ IsPipe(Norm(Stage))
           /\ max_pipeline_index # -1
           /\ Idx(Norm(Stage)) > max_pipeline_index + 1)
            => /\ max_pipeline_index' = Idx(Norm(Stage))
               /\ SubSeq(clean_history', Len(clean_history) + 1, Len(clean_history'))
                      = [k \in 1..(Idx(Norm(Stage)) - max_pipeline_index) |->
                            PIPELINE_STAGES[max_pipeline_index + 1 + k]]]_vars

\* a card first seen at Screening that then skipped a stage has been cleaned
C7_Witness ==
    /\ cpc = "done"
    /\ PipelineAt(full_history) # {}
    /\ Idx(Norm(full_history[FirstOf(PipelineAt(full_history))])) = 1
    /\ clean_history[1] = "Screening"
    /\ Len(clean_history) >= 3

\* C8: a card whose raw list is empty, or whose labels all normalize to
\* neither a pipeline nor a terminal stage, gets the history <<"Applications">>.
C8_DefaultHistory ==
    (cpc = "done"
     /\ \A i \in DOMAIN full_history :
           ~IsPipe(Norm(full_history[i])) /\ ~IsFin(Norm(full_history[i])))
        => /\ clean_history = <<"Applications">>
           /\ clean_histories = <<[card_id |-> card_id, stages |-> <<"Applications">>]>>

\* a card seen only in an unmapped list and in an Unknown one has been cleaned
C8_Witness ==
    /\ cpc = "done"
    /\ \E i, j \in DOMAIN full_history :
          /\ Norm(full_history[i]) = "Random Stage"
          /\ Norm(full_history[j]) = "Unknown"
    /\ \A i \in DOMAIN full_history :
          ~IsPipe(Norm(full_history[i])) /\ ~IsFin(Norm(full_history[i]))
    /\ clean_histories = <<[card_id |-> card_id, stages |-> <<"Applications">>]>>

-----------------------------------------------------------------------------
(* Properties of the flow graph, checked under SpecGraph *)

\* every journey added so far is a history the cleaner returns
AllCleaned == \A i \in DOMAIN card_histories : card_histories[i] \in CleanedSet

\* every stage name a journey of the model can hold, and Waiting
StageNames ==
    {PIPELINE_STAGES[i] : i \in DOMAIN PIPELINE_STAGES}
    \cup {FINAL_STATES[i] : i \in DOMAIN FINAL_STATES}
    \cup {"Waiting", "Random Stage", "Other Stage"}

\* nodes[a].outgoing_edges[b], 0 when there is no such node or key
Out(a, b) == IF HasNode(nodes, a) THEN DictGet(Node(nodes, a).outgoing_edges, b) ELSE 0

\* nodes[b].incoming_edges[a], 0 when there is no such node or key
In(b, a) == IF HasNode(nodes, b) THEN DictGet(Node(nodes, b).incoming_edges, a) ELSE 0

\* the number of adjacent positions (a, b) in the journeys hs
RECURSIVE PairCount(_, _, _)
PairCount(hs, a, b) ==
    IF hs = <<>> THEN 0
    ELSE Cardinality({k \in 1..(Len(hs[1]) - 1) : hs[1][k] = a /\ hs[1][k + 1] = b})
         + PairCount(Tail(hs), a, b)

\* the number of journeys that end at stage s
EndingAt(s) ==
    Cardinality({i \in DOMAIN card_histories :
                    card_histories[i] # <<>>
                    /\ card_histories[i][Len(card_histories[i])] = s})

\* C3: after the waiting pass on a graph of cleaned histories, every
\* non-terminal node other than Waiting has total_outgoing = total_incoming,
\* and the first pipeline stage has total_outgoing = total_cards.
C3_FlowConserved ==
    (gpc = "resolved" /\ AllCleaned) =>
        \A i \in DOMAIN nodes :
            (~nodes[i].is_final /\ nodes[i].name # "Waiting") =>
                IF nodes[i].name = PIPELINE_STAGES[1]
                THEN total_outgoing(nodes[i]) = total_cards
                ELSE total_outgoing(nodes[i]) = total_incoming(nodes[i])

\* C4: after the waiting pass on a graph of cleaned histories, the weight of
\* the edge S -> Waiting is the number of journeys that end at the non-terminal
\* stage S (none for a terminal S), on both ends of the edge.
C4_WaitingCountsStalled ==
    (gpc = "resolved" /\ AllCleaned) =>
        \A s \in StageNames :
            /\ Out(s, "Waiting") = (IF IsFin(s) \/ s = "Waiting" THEN 0 ELSE EndingAt(s))
            /\ In("Waiting", s) = Out(s, "Waiting")

\* C9: total_cards is the number of journeys added, whatever their lengths
\* and the edges they made (a call with an empty list adds no journey).
C9_TotalCardsCountsJourneys ==
    total_cards = Cardinality({i \in DOMAIN card_histories : card_histories[i] # <<>>})

\* a single-stage journey and one of three or more stages have been added
C9_Witness ==
    /\ total_cards = 2
    /\ \E i, j \in DOMAIN card_histories :
          Len(card_histories[i]) = 1 /\ Len(card_histories[j]) >= 3
    /\ \E a, b \in StageNames : Out(a, b) > 0

\* C10: before the waiting pass, for every ordered pair of stages (a, b) the
\* count a -> b in a's outgoing map and the count from a in b's incoming map
\* both equal the number of adjacent positions (a, b) in the journeys added:
\* every entry of a map holds that number, and every transition made has its
\* two entries (a pair with no entry was never a transition: its count is 0).
C10_EdgesCountTransitions ==
    gpc = "build" =>
        /\ \A i \in DOMAIN nodes :
              /\ \A e \in DOMAIN nodes[i].outgoing_edges :
                    nodes[i].outgoing_edges[e].count =
                        PairCount(card_histories, nodes[i].name, nodes[i].outgoing_edges[e].key)
              /\ \A e \in DOMAIN nodes[i].incoming_edges :
                    nodes[i].incoming_edges[e].count =
                        PairCount(card_histories, nodes[i].incoming_edges[e].key, nodes[i].name)
        /\ \A h \in DOMAIN card_histories :
              \A k \in 1..(Len(card_histories[h]) - 1) :
                  LET a == card_histories[h][k]
                      b == card_histories[h][k + 1]
                  IN  /\ Out(a, b) = PairCount(card_histories, a, b)
                      /\ In(b, a) = PairCount(card_histories, a, b)

\* the same transition was added twice, into a node made on first use
C10_Witness ==
    /\ gpc = "build"
    /\ HasNode(nodes, "Random Stage")
    /\ \E a \in StageNames :
          /\ a # "Random Stage"
          /\ Out(a, "Random Stage") = 2
          /\ In("Random Stage", a) = 2

-----------------------------------------------------------------------------
(* Properties of the waiting pass, checked under SpecGraph *)

\* a step that runs calculate_waiting_flows (alone or inside to_sankey_data)
WaitingPass == waiting_passes' = waiting_passes + 1

\* the weight the documentation gives: the first pipeline stage always
\* measures against total_cards
DocumentedWeight(node) ==
    IF node.name = PIPELINE_STAGES[1] THEN Max(0, total_cards - total_outgoing(node))
    ELSE IF node.is_final THEN 0
    ELSE Max(0, total_incoming(node) - total_outgoing(node))

\* the first pipeline stage measures against total_cards only while nothing
\* flows into it
GuardedWeight(node) ==
    IF node.name = PIPELINE_STAGES[1] /\ total_incoming(node) = 0
    THEN Max(0, total_cards - total_outgoing(node))
    ELSE IF node.is_final THEN 0
    ELSE Max(0, total_incoming(node) - total_outgoing(node))

\* the pass adds Weight(node) -> Waiting to every node but Waiting when the
\* weight is positive, the same weight to Waiting's incoming map, nothing else
PassAdds(Weight(_)) ==
    WaitingPass =>
        /\ Len(nodes') = Len(nodes)
        /\ \A i \in DOMAIN nodes :
              /\ nodes'[i].name = nodes[i].name
              /\ nodes'[i].is_final = nodes[i].is_final
              /\ IF nodes[i].name = "Waiting"
                 THEN /\ nodes'[i].outgoing_edges = nodes[i].outgoing_edges
                      /\ \A j \in DOMAIN nodes :
                            nodes[j].name # "Waiting" =>
                                DictGet(nodes'[i].incoming_edges, nodes[j].name) =
                                    DictGet(nodes[i].incoming_edges, nodes[j].name)
                                    + Weight(nodes[j])
                      /\ \A e \in DOMAIN nodes'[i].incoming_edges :
                            /\ nodes'[i].incoming_edges[e].key # "Waiting"
                            /\ HasNode(nodes, nodes'[i].incoming_edges[e].key)
                 ELSE /\ nodes'[i].incoming_edges = nodes[i].incoming_edges
                      /\ nodes'[i].outgoing_edges =
                            IF Weight(nodes[i]) > 0
                            THEN DictAdd(nodes[i].outgoing_edges, "Waiting", Weight(nodes[i]))
                            ELSE nodes[i].outgoing_edges

C12_SecondPassChangesNothing ==
    [][(WaitingPass /\ waiting_passes >= 1) => nodes' = nodes]_vars

\* to_sankey_data ran the pass a second time on a graph whose first pass added
\* waiting edges at the first pipeline stage and at a later one
C12_Witness ==
    /\ waiting_passes = 2
    /\ gpc = "reported"
    /\ Out("Applications", "Waiting") > 0
    /\ Out("Screening", "Waiting") > 0

\* the terminal stages of the graph: the final states and Waiting
TerminalNames == {FINAL_STATES[i] : i \in DOMAIN FINAL_STATES} \cup {"Waiting"}

\* C13: in a graph built from cleaned histories no terminal node, Waiting
\* included, has an outgoing edge, neither after accumulation nor after the
\* waiting pass, and the pass computes zero waiting for every terminal node
\* whatever its incoming total.
C13_TerminalsAreSinks ==
    AllCleaned =>
        /\ \A name \in TerminalNames : HasNode(nodes, name)
        /\ \A i \in DOMAIN nodes :
              nodes[i].name \in TerminalNames =>
                  /\ nodes[i].is_final
                  /\ nodes[i].outgoing_edges = <<>>
                  /\ WaitingCards(nodes, i, total_cards) = 0

\* after a pass, a final state and Waiting both have incoming flow
C13_Witness ==
    /\ AllCleaned
    /\ gpc = "resolved"
    /\ total_incoming(Node(nodes, "Accepted")) = 2
    /\ total_incoming(Node(nodes, "Waiting")) > 0

-----------------------------------------------------------------------------
(* Properties of generate_sankeymatic_data, checked under Spec *)

\* the canonical stage names: the pipeline stages and the final states
CanonicalNames ==
    {PIPELINE_STAGES[i] : i \in DOMAIN PIPELINE_STAGES}
    \cup {FINAL_STATES[i] : i \in DOMAIN FINAL_STATES}

\* a canonical name (or Waiting, where allowed) that does not contain "Unknown"
KnownStage(name, allowed) ==
    /\ name \in allowed
    /\ ~Contains(Chars(name), Chars("Unknown"))

\* the raw list names of card i of card_movements
RawNames(i) == {card_movements[i].value[k] : k \in DOMAIN card_movements[i].value}

\* C14: every element of every cleaned history is a canonical pipeline or
\* terminal stage name; "Unknown", or a name that contains it, is in no cleaned
\* history and is no node name and no edge endpoint of the flow graph built
\* from the cleaned histories.
C14_OnlyCanonicalStages ==
    /\ \A i \in DOMAIN clean_histories :
          \A k \in DOMAIN clean_histories[i].stages :
              KnownStage(clean_histories[i].stages[k], CanonicalNames)
    /\ \A i \in DOMAIN nodes :
          /\ KnownStage(nodes[i].name, CanonicalNames \cup {"Waiting"})
          /\ \A e \in DOMAIN nodes[i].outgoing_edges :
                KnownStage(nodes[i].outgoing_edges[e].key, CanonicalNames \cup {"Waiting"})
          /\ \A e \in DOMAIN nodes[i].incoming_edges :
                KnownStage(nodes[i].incoming_edges[e].key, CanonicalNames \cup {"Waiting"})

\* a report was made from a board where one card was seen on a list missing
\* from the board and on the list "Unknown Stage", another on a known list
C14_Witness ==
    /\ pc = "returned"
    /\ gpc = "formatted"
    /\ Len(card_movements) = 2
    /\ \E i \in DOMAIN card_movements : RawNames(i) = {"Unknown", "Unknown Stage"}
    /\ \E i \in DOMAIN card_movements : "Accept" \in RawNames(i)

\* the label matches no rule of the normalizer
NoRuleMatches(label) ==
    /\ label # "" /\ label # "Unknown"
    /\ ~Contains(Lower(Chars(label)), Chars("rejected by me"))
    /\ ~Contains(Lower(Chars(label)), Chars("reject by me"))
    /\ \A m \in DOMAIN stage_mappings :
          ~AnyKeyword(Lower(Chars(label)), stage_mappings[m].keywords)

\* a custom stage name: no rule matches it, it is no canonical name and does
\* not contain "Unknown"
CustomLabel(label) ==
    /\ NoRuleMatches(label)
    /\ label \notin CanonicalNames
    /\ ~Contains(Chars(label), Chars("Unknown"))

\* no label before position k of the raw history is a terminal stage
ReachedAt(raw, k) == \A j \in 1..(k - 1) : ~IsFin(Norm(raw[j]))

\* C15: a raw label that matches no normalizer rule is returned unchanged by
\* the normalizer, is kept in the card's cleaned history, and so becomes an
\* ad-hoc, lazily created non-terminal node of the flow graph (a node is made
\* by a transition: the card has at least two labels, none a terminal stage
\* before the custom one).
C15_CustomLabelBecomesNode ==
    pc = "returned" =>
        \A i \in DOMAIN card_movements :
            \A k \in DOMAIN card_movements[i].value :
                LET raw == card_movements[i].value
                IN  (CustomLabel(raw[k]) /\ Len(raw) >= 2 /\ ReachedAt(raw, k)) =>
                        /\ Norm(raw[k]) = raw[k]
                        /\ \E s \in DOMAIN clean_histories[i].stages :
                              clean_histories[i].stages[s] = raw[k]
                        /\ HasNode(nodes, raw[k])
                        /\ ~Node(nodes, raw[k]).is_final

\* C16: every flow of get_flows has count > 0 and no two flows have the same
\* ordered pair (from_stage, to_stage); whatever the action log, neither the
\* CardHistory validator (stages not empty) nor the FlowData validator
\* (count > 0) fails during generation.
C16_ValidatorsNeverFail ==
    /\ \A i \in DOMAIN flows : flows[i].count > 0
    /\ \A i, j \in DOMAIN flows :
          (flows[i].from_stage = flows[j].from_stage
           /\ flows[i].to_stage = flows[j].to_stage) => i = j
    /\ \A i \in DOMAIN clean_histories : clean_histories[i].stages # <<>>
    /\ \A k \in DOMAIN results : results[k].cause # "ValidationError"
    /\ gpc # "raised"

\* a report was made from two cards, one of them seen on unusable lists only,
\* and one flow counts both cards
C16_Witness ==
    /\ pc = "returned"
    /\ Len(clean_histories) = 2
    /\ \E i \in DOMAIN card_movements : RawNames(i) = {"Random Stage"}
    /\ \E i \in DOMAIN flows : flows[i].count = 2

\* C17: two calls of generate_sankeymatic_data with the same lists, cards
\* and actions return identical strings: nothing of the generator or of the
\* flow graph of an earlier call is carried into a later call.
C17_SameInputSameOutput ==
    \A j, k \in DOMAIN results :
        (results[j].kind = "return" /\ results[k].kind = "return") =>
            results[j].value = results[k].value

\* the second call has returned a report with several flows
C17_Witness ==
    /\ Len(results) = 2
    /\ pc = "returned"
    /\ results[1].kind = "return"
    /\ results[2].kind = "return"
    /\ results[2].value = output
    /\ Len(flows) >= 2

\* the first early return of generate_sankeymatic_data
NoDataFound == << <<"No job application data found.">> >>

\* the board has no cards and its action log has no create event
EmptyBoard ==
    /\ cards = <<>>
    /\ \A k \in DOMAIN actions : actions[k].type # "createCard"

\* C18: when the board has no cards and the action log has no create event,
\* there are zero cleaned histories, generate_sankeymatic_data returns exactly
\* "No job application data found." and builds no flow graph.
C18_NoDataSentinel ==
    EmptyBoard =>
        /\ card_movements = <<>>
        /\ clean_histories = <<>>
        /\ nodes = <<>> /\ flows = <<>> /\ output = <<>>
        /\ \A k \in DOMAIN trace : trace[k] # "_calculate_flows"
        /\ \A k \in DOMAIN results :
              results[k].kind = "return" => results[k].value = NoDataFound
        /\ pc = "returned" => results[Len(results)] = Returned(NoDataFound)

\* a call has returned on a board without cards whose log holds two moves
C18_Witness ==
    /\ EmptyBoard
    /\ pc = "returned"
    /\ Len(actions) = 2
    /\ \A k \in DOMAIN actions : actions[k].listAfter # "None"
    /\ results = <<Returned(NoDataFound)>>

\* the three fetches of a call, in the order of lines 87-89
FetchOrder == <<"get_board_lists", "get_board_cards", "get_board_actions">>

\* the step is a fetch that fails
FetchFailure == pc \in {"fetch_lists", "fetch_cards", "fetch_actions"} /\ results' # results

\* C19: if one of the three fetches (lists, cards, actions) fails,
\* generate_sankeymatic_data raises exactly one TrelloAPIError whose cause is
\* that failure and returns no report string; after the failure the call
\* makes no further fetch, cleans nothing, builds no graph and gives no output.
C19_FetchFailureRaises ==
    /\ [][FetchFailure =>
              /\ pc' = "raised"
              /\ results' = Append(results, Raised(FetchAt(pc)))
              /\ UNCHANGED <<card_movements, cleanVars, graphVars>>]_vars
    /\ [][pc # "raised"]_vars
    /\ [](pc = "raised" =>
              /\ results[Len(results)].kind = "TrelloAPIError"
              /\ results[Len(results)].value = <<>>
              /\ results[Len(results)].cause = trace[Len(trace)]
              /\ trace = SubSeq(FetchOrder, 1, Len(trace))
              /\ \A k \in 1..(Len(results) - 1) : results[k].kind = "return")

\* the second call failed at its third fetch, after a first call that
\* returned a report
C19_Witness ==
    /\ pc = "raised"
    /\ trace = FetchOrder
    /\ Len(results) = 2
    /\ results[1].value = output
    /\ results[2] = Raised("get_board_actions")

-----------------------------------------------------------------------------
(* Properties of to_sankeymatic_string, checked under SpecGraph *)

\* the stage names of the rank table
RankedNames == {node_ranks[i].key : i \in DOMAIN node_ranks}

\* the sort key read off an output line
LineKey(line) == <<RankOf(line[1]), RankOf(line[5])>>

\* the position of flow i among the output lines
LineOf(i) == CHOOSE k \in 1..Len(flows) : output[k] = to_sankeymatic_format(flows[i])

\* C20: to_sankeymatic_string emits each flow exactly once as a line, in
\* non-decreasing order of (rank(from_stage), rank(to_stage)) under the fixed
\* rank table; a stage name outside the table ranks after every name of the
\* table, Waiting included; flows of equal key keep their relative order.
C20_FlowsSortedByRank ==
    gpc = "formatted" =>
        /\ Len(output) = Len(flows) + Len(ColorLines)
        /\ \A i \in DOMAIN flows :
              Cardinality({k \in 1..Len(flows) :
                              output[k] = to_sankeymatic_format(flows[i])}) = 1
        /\ \A k \in 1..(Len(flows) - 1) : ~KeyLess(LineKey(output[k + 1]), LineKey(output[k]))
        /\ \A i \in DOMAIN flows :
              \A name \in {flows[i].from_stage, flows[i].to_stage} \ RankedNames :
                  \A known \in RankedNames : RankOf(name) > RankOf(known)
        /\ \A i, j \in DOMAIN flows :
              (i < j /\ sort_key(flows[i]) = sort_key(flows[j])) => LineOf(i) < LineOf(j)

\* the report holds two flows of equal key, from two stages outside the rank
\* table, behind a flow between ranked stages
C20_Witness ==
    /\ gpc = "formatted"
    /\ Len(flows) >= 3
    /\ \E i, j \in DOMAIN flows :
          /\ i < j
          /\ flows[i].from_stage = "Random Stage"
          /\ flows[j].from_stage = "Other Stage"
          /\ sort_key(flows[i]) = sort_key(flows[j])
          /\ LineOf(i) < LineOf(j)

-----------------------------------------------------------------------------
(* Properties of the normalizer, checked under SpecClean on the labels the *)
(* cleaner normalizes                                                      *)

\* the canonical names of the rules, in their fixed order
RuleOrder ==
    <<"Applications", "Screening", "Technical assessment", "Final rounds", "Offers",
      "Accepted", "Rejected">>

\* a keyword of rule m occurs in the label, case-insensitively
HasKeyword(label, m) == AnyKeyword(Lower(Chars(label)), stage_mappings[m].keywords)

\* the label contains "rejected by me" or "reject by me", case-insensitively
SaysRejectedByMe(label) ==
    \/ Contains(Lower(Chars(label)), Chars("rejected by me"))
    \/ Contains(Lower(Chars(label)), Chars("reject by me"))

\* C21: the normalizer returns "Rejected by me" for every label that contains
\* "rejected by me" or "reject by me" (case-insensitively), whatever other
\* keywords it holds; otherwise it returns the canonical name of the first
\* rule, in the order Applications, Screening, Technical assessment, Final
\* rounds, Offers, Accepted, Rejected, one of whose keywords occurs in it.
C21_RejectedByMeFirst ==
    /\ Len(stage_mappings) = Len(RuleOrder)
    /\ InLoop =>
          /\ SaysRejectedByMe(Stage) => normalized_stage = "Rejected by me"
          /\ \A m \in DOMAIN RuleOrder :
                (/\ ~SaysRejectedByMe(Stage)
                 /\ HasKeyword(Stage, m)
                 /\ \A n \in 1..(m - 1) : ~HasKeyword(Stage, n))
                    => normalized_stage = RuleOrder[m]

\* a label with "Rejected By Me" in capitals and the keyword of an earlier
\* rule was normalized and appended
C21_Witness ==
    /\ full_history = <<"Offer Rejected By Me">>
    /\ HasKeyword(full_history[1], 5)
    /\ cpc = "break"
    /\ clean_history = <<"Rejected by me">>

\* C22: the normalizer returns "Unknown" for the empty string and for the
\* literal "Unknown", and returns every other label that holds no rule
\* keyword unchanged, with the same characters in the same case.
C22_UnmatchedUnchanged ==
    InLoop =>
        /\ Stage \in {"", "Unknown"} => normalized_stage = "Unknown"
        /\ NoRuleMatches(Stage) =>
              /\ normalized_stage = Stage
              /\ Chars(normalized_stage) = Chars(Stage)

\* the lower-case label "unknown" matched no rule, came back unchanged and
\* was therefore not taken for the "Unknown" placeholder
C22_Witness ==
    /\ full_history = <<"unknown">>
    /\ NoRuleMatches(full_history[1])
    /\ pos = 1
    /\ NormalizedName[full_history[1]] = "unknown"
    /\ clean_history = <<>>

-----------------------------------------------------------------------------
(* Properties of the graph's construction, checked under SpecGraph *)

\* the nodes of the graph that carry the name
NodesNamed(name) == {i \in DOMAIN nodes : nodes[i].name = name}

\* exactly one node carries the name, with the given terminal flag
OneNode(name, is_final) ==
    /\ Cardinality(NodesNamed(name)) = 1
    /\ \A i \in NodesNamed(name) : nodes[i].is_final = is_final

\* nothing was done to the graph since its construction
NewGraph == gpc = "build" /\ card_histories = <<>> /\ waiting_passes = 0

\* C23: a new graph holds exactly one node per pipeline stage (non-terminal),
\* one per terminal stage (terminal) and the Waiting node (terminal), all
\* with empty edge maps, and total_cards = 0; the Waiting node exists in
\* every reachable state of the graph, also when no journey was added.
C23_NewGraphNodes ==
    /\ NewGraph =>
          /\ \A s \in DOMAIN PIPELINE_STAGES : OneNode(PIPELINE_STAGES[s], FALSE)
          /\ \A s \in DOMAIN FINAL_STATES : OneNode(FINAL_STATES[s], TRUE)
          /\ OneNode("Waiting", TRUE)
          /\ Len(nodes) = Len(PIPELINE_STAGES) + Len(FINAL_STATES) + 1
          /\ \A i \in DOMAIN nodes :
                nodes[i].incoming_edges = <<>> /\ nodes[i].outgoing_edges = <<>>
          /\ total_cards = 0
    /\ Cardinality(NodesNamed("Waiting")) = 1

\* the waiting pass ran on a graph no journey was added to, and the Waiting
\* node is there with empty maps
C23_Witness ==
    /\ card_histories = <<>>
    /\ total_cards = 0
    /\ waiting_passes >= 1
    /\ OneNode("Waiting", TRUE)
    /\ Node(nodes, "Waiting").incoming_edges = <<>>

-----------------------------------------------------------------------------
(* Properties of the raw histories, checked under Spec *)

\* the action is a createCard with data.list
IsCreate(a) == a.type = "createCard" /\ a.list # "None"

\* the action is an updateCard with listBefore and listAfter
IsMove(a) == a.type = "updateCard" /\ a.listBefore # "None" /\ a.listAfter # "None"

\* the positions of the log, newest first, that hold a create or a move of card c
EventsOf(c) ==
    {i \in DOMAIN actions : actions[i].card = c /\ (IsCreate(actions[i]) \/ IsMove(actions[i]))}

CreatesOf(c) == {i \in EventsOf(c) : IsCreate(actions[i])}

MovesOf(c) == {i \in EventsOf(c) : IsMove(actions[i])}

\* the name of the list a create puts the card on or a move takes it to
TargetName(a) == ListName(lists, IF IsCreate(a) THEN a.list ELSE a.listAfter)

\* card c has a raw history
Tracked(c) == \E i \in DOMAIN card_movements : card_movements[i].key = c

\* the raw history of card c
RawOf(c) == card_movements[CHOOSE i \in DOMAIN card_movements : card_movements[i].key = c].value

\* the raw histories of this call have been built
MovementsBuilt == \E k \in DOMAIN trace : trace[k] = "card_movements"

\* the events at the positions in kept, oldest first, fill the raw history of
\* card c from its element first on
OldestFirst(c, kept, first) ==
    \A i \in kept :
        RawOf(c)[first + Cardinality({j \in kept : j > i})] = TargetName(actions[i])

\* the oldest event of card c is its create, the only one
CreatedFirst(c) ==
    \E k \in EventsOf(c) :
        /\ IsCreate(actions[k])
        /\ \A i \in EventsOf(c) \ {k} : i < k /\ IsMove(actions[i])

\* C24: the actions are processed in reverse delivery order, so for a log
\* delivered newest first whose oldest event for a card is its create, the
\* raw history of the card is the create list followed by the move targets
\* from the oldest move to the newest.
C24_OldestFirst ==
    MovementsBuilt =>
        \A c \in CardIds :
            CreatedFirst(c) =>
                /\ Tracked(c)
                /\ Len(RawOf(c)) = Cardinality(EventsOf(c))
                /\ OldestFirst(c, EventsOf(c), 1)

\* a log delivered as move to L2, move to L3, create on L1 gave the history
\* To Apply, Random Stage, Accept
C24_Witness ==
    /\ pc = "clean"
    /\ Len(actions) = 3
    /\ CreatedFirst("card1")
    /\ actions[1].listAfter = "L2" /\ actions[2].listAfter = "L3"
    /\ RawOf("card1") = <<"To Apply", "Random Stage", "Accept">>

\* the smallest of a non-empty set of positions: the newest event
Newest(S) == CHOOSE k \in S : \A i \in S : k <= i

\* C25: a move is appended to a card's raw history only if a create of that
\* card was processed before it (in reverse delivery order); a move with no
\* earlier create is dropped without effect; a create replaces whatever raw
\* history the card had by the single create list.
C25_MovesNeedCreate ==
    MovementsBuilt =>
        \A c \in CardIds :
            IF CreatesOf(c) # {}
            THEN LET kept == {i \in MovesOf(c) : i < Newest(CreatesOf(c))}
                 IN  /\ Tracked(c)
                     /\ Len(RawOf(c)) = 1 + Cardinality(kept)
                     /\ RawOf(c)[1] = TargetName(actions[Newest(CreatesOf(c))])
                     /\ OldestFirst(c, kept, 2)
            ELSE /\ Tracked(c) => Len(RawOf(c)) = 1
                 /\ Tracked(c) => \E i \in DOMAIN cards : cards[i].id = c

\* a card created on L1 and moved to L2 was created again on L4: its raw
\* history is the new create list alone
C25_Witness ==
    /\ pc = "clean"
    /\ Len(actions) = 3
    /\ IsCreate(actions[1]) /\ IsMove(actions[2]) /\ IsCreate(actions[3])
    /\ \A k \in DOMAIN actions : actions[k].card = "card1"
    /\ RawOf("card1") = <<"Unknown Stage">>

\* the ids of the board's cards and of the cards with a create event
HistoryIds == {cards[i].id : i \in DOMAIN cards} \cup {c \in CardIds : CreatesOf(c) # {}}

\* the cleaned histories of this call have been built
HistoriesBuilt == \E k \in DOMAIN trace : trace[k] = "_clean_backward_movements"

\* C26: there is exactly one history per distinct card id among the board's
\* cards and the cards with a create event, never two for the same id; a
\* board card with no create event gets a raw history of only its current
\* list's name ("Unknown" when the list id is not on the board), whatever
\* moves the log holds for it.
C26_OneHistoryPerCard ==
    /\ MovementsBuilt =>
          /\ {card_movements[i].key : i \in DOMAIN card_movements} = HistoryIds
          /\ Len(card_movements) = Cardinality(HistoryIds)
          /\ \A i \in DOMAIN cards :
                CreatesOf(cards[i].id) = {} =>
                    RawOf(cards[i].id) =
                        << IF \E l \in DOMAIN lists : lists[l].id = cards[i].idList
                           THEN ListName(lists, cards[i].idList)
                           ELSE "Unknown" >>
    /\ HistoriesBuilt =>
          /\ {clean_histories[i].card_id : i \in DOMAIN clean_histories} = HistoryIds
          /\ Len(clean_histories) = Cardinality(HistoryIds)

\* the board shows card2 on a list it does not have, the log holds a move of
\* card2 and no create of it, and card1 has a history too
C26_Witness ==
    /\ HistoriesBuilt
    /\ MovesOf("card2") # {} /\ CreatesOf("card2") = {}
    /\ \E i \in DOMAIN cards : cards[i].id = "card2" /\ cards[i].idList = "L9"
    /\ RawOf("card2") = <<"Unknown">>
    /\ Len(clean_histories) = 2

-----------------------------------------------------------------------------
(* Properties of the flows of a call, checked under Spec *)

\* the second early return of generate_sankeymatic_data
NoFlowsGenerated == << <<"No flows generated from the data.">> >>

\* _calculate_flows has returned in this call
FlowsCalculated == pc \in {"flows", "returned"} /\ clean_histories # <<>>

\* C27: whenever there is at least one cleaned history, the flows that
\* _calculate_flows returns are not empty, so generate_sankeymatic_data never
\* returns "No flows generated from the data."
C27_FlowsNeverEmpty ==
    /\ FlowsCalculated => flows # <<>>
    /\ \A k \in DOMAIN results : results[k].value # NoFlowsGenerated

\* the only card of the board has the one-stage history Accepted: the only
\* flow is the one from Applications to Waiting, and the call returned a report
C27_Witness ==
    /\ pc = "returned"
    /\ Len(clean_histories) = 1
    /\ clean_histories[1].stages = <<"Accepted">>
    /\ flows = <<[from_stage |-> "Applications", to_stage |-> "Waiting", count |-> 1]>>
    /\ results[Len(results)].kind = "return"
    /\ results[Len(results)].value = output

-----------------------------------------------------------------------------
(* Properties of the Waiting node and of the report, checked under SpecGraph *)

\* C28: for a graph built from any list of cleaned histories, after the
\* waiting pass the total weight of the edges into Waiting is at most
\* total_cards.
C28_WaitingAtMostCards ==
    (waiting_passes >= 1 /\ AllCleaned) =>
        total_incoming(Node(nodes, "Waiting")) <= total_cards


\* the permutations of 1..n
Perms(n) == {f \in [1..n -> 1..n] : \A i, j \in 1..n : f[i] = f[j] => i = j}

\* the histories hs in the order f
Reordered(hs, f) == [i \in 1..Len(hs) |-> hs[f[i]]]

\* the flows _calculate_flows returns for the cleaned histories hs
FlowsOfHistories(hs) ==
    LET graph == build_flow_graph_from_histories(
                     [i \in DOMAIN hs |-> [card_id |-> "card", stages |-> hs[i]]])
    IN  get_flows(WaitingFrom(graph.nodes, 1, graph.total_cards))

FlowSet(fs) == {fs[i] : i \in DOMAIN fs}

\* the raw histories of two cards cleaned together
CleanedTogether(r, s) ==
    CleanAll(<<[key |-> "card1", value |-> r], [key |-> "card2", value |-> s]>>)

\* the cleaned history of a card is the one it has when it is the only card,
\* whatever the other card's raw history is and whichever comes first
CleaningIsPerEntity ==
    \A r, s \in SeqsUpTo(JourneyLabels, 2) :
        /\ CleanedTogether(r, s)[1] = CleanAll(<<[key |-> "card1", value |-> r]>>)[1]
        /\ CleanedTogether(r, s)[2] = CleanAll(<<[key |-> "card2", value |-> s]>>)[1]

====
